---- MODULE Spec2Model ----
(***************************************************************************)
(* The Befunge interpreter of src/src/main.rs as a state machine.         *)
(*                                                                         *)
(* The state is the interpreter's InterpreterState (self.state) together   *)
(* with what a consumer of the iterator observes: the result of the last   *)
(* call of next(), the operator that call decoded, the state it started    *)
(* from, and the number of states emitted so far.  A panic ends the        *)
(* process: after it no action is enabled.                                 *)
(*                                                                         *)
(* Characters are their Unicode code points; a program is a sequence of    *)
(* rows, a row a sequence of characters; the top of the stack is the last  *)
(* element of the sequence (Vec::push / Vec::pop).                         *)
(***************************************************************************)
EXTENDS Integers, Sequences, FiniteSets, TLC

VARIABLES state, prev, lastOp, ret, panic, emitted

vars == <<state, prev, lastOp, ret, panic, emitted>>

\* ------------------------------------------------------------------ bounds
\* Longest single-row program of the exhaustive program family.
MaxLen == 2
\* Operands a, b of the operand families range over -MaxOperand..MaxOperand.
MaxOperand == 2
\* Number of calls of next() that emit a state before the consumer stops.
MaxSteps == 12

\* -------------------------------------------------------------- characters
ChSpace == 32
ChQuote == 34
ChHash == 35
ChStar == 42
ChPlus == 43
ChComma == 44
ChMinus == 45
ChSlash == 47
ChZero == 48
ChNine == 57
ChColon == 58
ChLt == 60
ChGt == 62
ChQuestion == 63
ChAt == 64
ChCaret == 94
ChUnderscore == 95
ChLowerA == 97
ChLowerB == 98
ChLowerG == 103
ChLowerV == 118
ChPipe == 124
\* Two characters outside Latin-1: U+0100 and the last code point U+10FFFF.
ChWide == 256
ChLast == 1114111

\* ------------------------------------------------------------ i32 and u8
MaxI32 == 2147483647
MinI32 == -MaxI32 - 1
U8Range == 256

\* A cast to u8 that keeps the value.
as_u8_keep(v) == v

\* `v as u8` for an i32 v, and `c as u8` for a char c: the low 8 bits.
as_u8(v) == v % U8Range

\* Whether x + y leaves the i32 range.
add_overflows(x, y) ==
    \/ y > 0 /\ x > MaxI32 - y
    \/ y < 0 /\ x < MinI32 - y

\* x + y modulo 2^32, as an i32.
wrapping_add(x, y) ==
    IF y > 0 /\ x > MaxI32 - y THEN (x - MaxI32 - 1) + (y - MaxI32 - 1)
    ELSE IF y < 0 /\ x < MinI32 - y THEN (x + MaxI32 + 1) + (y + MaxI32 + 1)
    ELSE x + y

\* Whether y - x leaves the i32 range.
sub_overflows(y, x) ==
    \/ x < 0 /\ y > MaxI32 + x
    \/ x > 0 /\ y < MinI32 + x

\* y - x modulo 2^32, as an i32.
wrapping_sub(y, x) ==
    IF x < 0 /\ y > MaxI32 + x THEN (y - MaxI32 - 1) - (x + MaxI32 + 1)
    ELSE IF x > 0 /\ y < MinI32 + x THEN (y + MaxI32 + 1) - (x - MaxI32 - 1)
    ELSE y - x

\* The range of a 16-bit half of an i32.
U16Range == U8Range * U8Range

\* x * y modulo 2^32, as an i32: the long multiplication of the 16-bit halves
\* of x and y (x = xh * 2^16 + xl), the low half xl taken byte by byte so
\* that no intermediate value leaves the i32 range.  xh * yh * 2^32 is 0
\* modulo 2^32.
wrapping_mul(x, y) ==
    LET xl == x % U16Range
        xh == x \div U16Range
        yl == y % U16Range
        yh == y \div U16Range
        q == (xl \div U8Range) * yl
        t == (xl % U8Range) * yl
        low == (q % U8Range) * U8Range + t
        m == (((xh * yl) % U16Range) + ((xl * yh) % U16Range)) % U16Range
        hi == ((q \div U8Range) + (low \div U16Range) + m) % U16Range
        lo == low % U16Range
    IN  IF hi >= U16Range \div 2 THEN (hi - U16Range) * U16Range + lo
        ELSE hi * U16Range + lo

\* y / x for x > 0: the quotient truncated toward zero.  \div rounds toward
\* minus infinity.
trunc_div_pos(y, x) ==
    IF y < 0 /\ y % x # 0 THEN (y \div x) + 1 ELSE y \div x

\* y / x of two i32 (x # 0, not MinI32 / -1): the quotient truncated toward
\* zero.
trunc_div(y, x) ==
    IF x > 0 THEN trunc_div_pos(y, x)
    ELSE IF x = MinI32 THEN (IF y = MinI32 THEN 1 ELSE 0)
    ELSE -trunc_div_pos(y, -x)

\* Whether x * y leaves the i32 range.
mul_overflows(x, y) ==
    /\ x # 0
    /\ y # 0
    /\ \/ (x = -1 /\ y = MinI32)
       \/ (y = -1 /\ x = MinI32)
       \/ /\ ~(x = -1 /\ y = MinI32)
          /\ ~(y = -1 /\ x = MinI32)
          /\ \E r \in {wrapping_mul(x, y)} :
                 \/ (r = MinI32 /\ x = -1)
                 \/ (~(r = MinI32 /\ x = -1) /\ trunc_div(r, x) # y)

\* --------------------------------------------------------------- Direction
Direction == {"Up", "Down", "Left", "Right"}

\* get_move with the rows of Up and Down exchanged.
get_move_flipped(d) ==
    CASE d = "Up"    -> [row |-> 1, col |-> 0]
      [] d = "Right" -> [row |-> 0, col |-> 1]
      [] d = "Down"  -> [row |-> -1, col |-> 0]
      [] d = "Left"  -> [row |-> 0, col |-> -1]

\* Direction::get_move: the unit move of a direction.
get_move(d) ==
    CASE d = "Up"    -> [row |-> -1, col |-> 0]
      [] d = "Right" -> [row |-> 0, col |-> 1]
      [] d = "Down"  -> [row |-> 1, col |-> 0]
      [] d = "Left"  -> [row |-> 0, col |-> -1]

\* ---------------------------------------------------------------- Operator
\* An Operator value: its variant, the u8 of PushDigit / PushAsciiValue or the
\* char of Unknown (n), and the Direction of SetDirection (dir).
Op(kind) == [kind |-> kind, n |-> 0, dir |-> "Right"]
OpN(kind, n) == [kind |-> kind, n |-> n, dir |-> "Right"]
OpDir(d) == [kind |-> "SetDirection", n |-> 0, dir |-> d]

ReaderMode == {"Normal", "String"}

\* parse_operator in ReaderMode::Normal.
parse_normal(c) ==
    CASE c >= ChZero /\ c <= ChNine -> OpN("PushDigit", as_u8(c - ChZero))
      [] c = ChSpace      -> Op("NoOp")
      [] c = ChPlus       -> Op("Addition")
      [] c = ChMinus      -> Op("Subtraction")
      [] c = ChStar       -> Op("Multiplication")
      [] c = ChSlash      -> Op("Division")
      [] c = ChQuote      -> Op("ToggleStringMode")
      [] c = ChColon      -> Op("Duplicate")
      [] c = ChComma      -> Op("Pop")
      [] c = ChUnderscore -> Op("PopMoveHorizontal")
      [] c = ChPipe       -> Op("PopMoveVertical")
      [] c = ChLowerG     -> Op("Get")
      [] c = ChGt         -> OpDir("Right")
      [] c = ChLt         -> OpDir("Left")
      [] c = ChCaret      -> OpDir("Up")
      [] c = ChLowerV     -> OpDir("Down")
      [] c = ChHash       -> Op("Bridge")
      [] c = ChAt         -> Op("End")
      [] OTHER            -> OpN("Unknown", c)

\* parse_operator in ReaderMode::String.
parse_string(c) ==
    IF c = ChQuote THEN Op("ToggleStringMode")
    ELSE OpN("PushAsciiValue", as_u8(c))

parse_operator(reader_mode, c) ==
    IF reader_mode = "Normal" THEN parse_normal(c) ELSE parse_string(c)

\* ------------------------------------------------------------------ panics
NoPanic == [kind |-> "None", c |-> 0]
Panic(kind) == [kind |-> kind, c |-> 0]
PanicChar(kind, c) == [kind |-> kind, c |-> c]

\* The result of a computation that may panic.
Ok(v) == [ok |-> TRUE, val |-> v, panic |-> NoPanic]
Fail(p) == [ok |-> FALSE, val |-> 0, panic |-> p]

\* ------------------------------------------------- mathematical_operation
\* The closures handed to mathematical_operation, on i32.  `checked` is
\* whether the build checks arithmetic overflow (it panics) or not (it wraps).
\* Division by zero and MinI32 / -1 panic in every build.
add_i32(x, y, checked) ==
    IF ~add_overflows(x, y) THEN Ok(x + y)
    ELSE IF checked THEN Fail(Panic("ArithmeticOverflow"))
    ELSE Ok(wrapping_add(x, y))

sub_i32(x, y, checked) ==
    IF ~sub_overflows(y, x) THEN Ok(y - x)
    ELSE IF checked THEN Fail(Panic("ArithmeticOverflow"))
    ELSE Ok(wrapping_sub(y, x))

mul_i32(x, y, checked) ==
    IF ~mul_overflows(x, y) THEN Ok(x * y)
    ELSE IF checked THEN Fail(Panic("ArithmeticOverflow"))
    ELSE Ok(wrapping_mul(x, y))

\* Division giving 0 for a zero divisor.
div_i32_zero(x, y, checked) ==
    IF x = 0 THEN Ok(0)
    ELSE IF x = -1 /\ y = MinI32 THEN Fail(Panic("ArithmeticOverflow"))
    ELSE Ok(trunc_div(y, x))

div_i32(x, y, checked) ==
    IF x = 0 THEN Fail(Panic("DivisionByZero"))
    ELSE IF x = -1 /\ y = MinI32 THEN Fail(Panic("ArithmeticOverflow"))
    ELSE Ok(trunc_div(y, x))

\* Vec::pop: the vector without its last element.
Front(v) == SubSeq(v, 1, Len(v) - 1)
Last(v) == v[Len(v)]

\* The closure an arithmetic arm hands to mathematical_operation, applied.
operation(kind, x, y, checked) ==
    CASE kind = "Addition"       -> add_i32(x, y, checked)
      [] kind = "Subtraction"    -> sub_i32(x, y, checked)
      [] kind = "Multiplication" -> mul_i32(x, y, checked)
      [] kind = "Division"       -> div_i32(x, y, checked)

\* mathematical_operation taking 0 for an operand the stack does not hold.
mathematical_operation_zero(stack, kind, checked) ==
    LET a == IF Len(stack) >= 1 THEN Last(stack) ELSE 0
        b == IF Len(stack) >= 2 THEN Last(Front(stack)) ELSE 0
        data == IF Len(stack) >= 2 THEN Front(Front(stack)) ELSE <<>>
        r == operation(kind, a, b, checked)
    IN  IF r.ok THEN Ok(Append(data, r.val)) ELSE r

\* mathematical_operation: pops a then b and pushes operation(a, b); panics
\* with fewer than two values.  a, b and the closure's result r are bound to
\* their values, each evaluated once.
mathematical_operation(stack, kind, checked) ==
    IF Len(stack) < 2 THEN Fail(Panic("StackUnderflow"))
    ELSE CHOOSE result \in
             {IF r.ok THEN Ok(Append(Front(Front(stack)), r.val)) ELSE r :
                 r \in {operation(kind, a, b, checked) :
                            a \in {Last(stack)}, b \in {Last(Front(stack))}}} :
             TRUE

\* -------------------------------------------------------- InterpreterState
\* InterpreterState::new.
new(program) ==
    [direction  |-> "Right",
     row        |-> 0,
     col        |-> 0,
     mode       |-> "Normal",
     stack      |-> <<>>,
     program    |-> program,
     output     |-> <<>>,
     terminated |-> FALSE]

\* program.get(row as usize) is Some and line.chars().nth(col as usize) is
\* Some: a negative i32 cast to usize is beyond every length.
valid_position(program, row, col) ==
    /\ row >= 0
    /\ row < Len(program)
    /\ col >= 0
    /\ col < Len(program[row + 1])

\* The character at (row, col) of the program.
char_at(program, row, col) == program[row + 1][col + 1]

\* get_operator reading a space where the program has no character.
get_operator_padded(program, row, col, reader_mode) ==
    IF ~valid_position(program, row, col)
    THEN Ok(parse_operator(reader_mode, ChSpace))
    ELSE Ok(parse_operator(reader_mode, char_at(program, row, col)))

\* get_operator: panics outside the program, else decodes the character.
get_operator(program, row, col, reader_mode) ==
    IF ~valid_position(program, row, col) THEN Fail(Panic("OutOfBounds"))
    ELSE Ok(parse_operator(reader_mode, char_at(program, row, col)))

\* next_operation without the test of terminated.
next_operation_always(s) ==
    [some |-> TRUE, got |-> get_operator(s.program, s.row, s.col, s.mode)]

\* Interpreter::next_operation: None when terminated, else the operator
\* at the position (or the panic of get_operator).
next_operation(s) ==
    IF ~s.terminated
    THEN [some |-> TRUE, got |-> get_operator(s.program, s.row, s.col, s.mode)]
    ELSE [some |-> FALSE, got |-> Fail(NoPanic)]

\* ----------------------------------------------- the arms of interpret
\* put_ret putting val in front.
put_ret_front(v, val) == <<val>> \o v

\* put_ret: the vector with val pushed.
put_ret(v, val) == Append(v, val)

\* PushDigit that builds the state with the direction of a new one.
PushDigit_default(s, d) ==
    Ok([s EXCEPT !.stack = Append(s.stack, d), !.direction = "Right"])

PushDigit(s, d) == Ok([s EXCEPT !.stack = Append(s.stack, d)])

PushAsciiValue(s, c) == Ok([s EXCEPT !.stack = Append(s.stack, c)])

\* The four arithmetic arms: the stack is replaced by mathematical_operation's
\* (r, evaluated once).
Arithmetic(s, kind, checked) ==
    CHOOSE result \in
        {IF r.ok THEN Ok([s EXCEPT !.stack = r.val]) ELSE r :
            r \in {mathematical_operation(s.stack, kind, checked)}} : TRUE

Addition(s, checked) == Arithmetic(s, "Addition", checked)
Subtraction(s, checked) == Arithmetic(s, "Subtraction", checked)
Multiplication(s, checked) == Arithmetic(s, "Multiplication", checked)
Division(s, checked) == Arithmetic(s, "Division", checked)

\* Duplicate: pushes the last value when there is one, else changes nothing.
Duplicate(s) ==
    IF s.stack # <<>>
    THEN Ok([s EXCEPT !.stack = Append(s.stack, Last(s.stack))])
    ELSE Ok(s)

\* Pop: pops a value, casts it to u8 and appends that char to the output.
Pop(s) ==
    IF s.stack = <<>> THEN Fail(Panic("StackUnderflow"))
    ELSE Ok([s EXCEPT !.stack = Front(s.stack),
                      !.output = put_ret(s.output, as_u8(Last(s.stack)))])

\* new_stack.pop().unwrap_or(0) of the two PopMove arms: the value and the
\* stack left.
pop_or_zero(stack) ==
    IF stack = <<>> THEN [out |-> 0, stack |-> stack]
    ELSE [out |-> Last(stack), stack |-> Front(stack)]

\* PopMoveHorizontal popping with expect, not unwrap_or(0).
PopMoveHorizontal_expect(s) ==
    IF s.stack = <<>> THEN Fail(Panic("StackUnderflow"))
    ELSE Ok([s EXCEPT !.stack = Front(s.stack),
                      !.direction = IF Last(s.stack) = 0 THEN "Right" ELSE "Left"])

PopMoveHorizontal(s) ==
    LET p == pop_or_zero(s.stack)
    IN  Ok([s EXCEPT !.stack = p.stack,
                     !.direction = IF p.out = 0 THEN "Right" ELSE "Left"])

PopMoveVertical(s) ==
    LET p == pop_or_zero(s.stack)
    IN  Ok([s EXCEPT !.stack = p.stack,
                     !.direction = IF p.out = 0 THEN "Down" ELSE "Up"])

\* The value Get pushes for coordinates x (row) and y (column): the code
\* point of the character there, 0 when there is none.
get_value(program, x, y) ==
    IF x >= 0 /\ x < Len(program)
    THEN (IF y >= 0 /\ y < Len(program[x + 1]) THEN program[x + 1][y + 1] ELSE 0)
    ELSE 0

\* Get popping x first, then y.
Get_swapped(s) ==
    IF Len(s.stack) < 2 THEN Fail(Panic("StackUnderflow"))
    ELSE LET x == Last(s.stack)
             y == Last(Front(s.stack))
             stack == Front(Front(s.stack))
         IN  Ok([s EXCEPT !.stack = Append(stack, get_value(s.program, x, y))])

\* Get: pops y then x and pushes get_value; panics with fewer than two values.
Get(s) ==
    IF Len(s.stack) < 2 THEN Fail(Panic("StackUnderflow"))
    ELSE LET y == Last(s.stack)
             x == Last(Front(s.stack))
             stack == Front(Front(s.stack))
         IN  Ok([s EXCEPT !.stack = Append(stack, get_value(s.program, x, y))])

\* ToggleStringMode that only enters String mode.
ToggleStringMode_set(s) == Ok([s EXCEPT !.mode = "String"])

ToggleStringMode(s) ==
    Ok([s EXCEPT !.mode = IF s.mode = "String" THEN "Normal" ELSE "String"])

SetDirection(s, direction) == Ok([s EXCEPT !.direction = direction])

\* Bridge without its own move.
Bridge_single(s) == Ok(s)

\* Bridge: one move in the current direction, before the final one.
Bridge(s) ==
    LET mv == get_move(s.direction)
    IN  Ok([s EXCEPT !.row = s.row + mv.row, !.col = s.col + mv.col])

NoOp(s) == Ok(s)

\* End leaving terminated as it is.
End_unset(s) == Ok(s)

End(s) == Ok([s EXCEPT !.terminated = TRUE])

\* Unknown skipped as NoOp is.
Unknown_skipped(s, c) == Ok(s)

Unknown(s, c) == Fail(PanicChar("UnknownInstruction", c))

\* The match of interpret: the partial update of the operator, or its panic.
partial_update(s, operator, checked) ==
    CASE operator.kind = "PushDigit"         -> PushDigit(s, operator.n)
      [] operator.kind = "PushAsciiValue"    -> PushAsciiValue(s, operator.n)
      [] operator.kind = "Addition"          -> Addition(s, checked)
      [] operator.kind = "Subtraction"       -> Subtraction(s, checked)
      [] operator.kind = "Multiplication"    -> Multiplication(s, checked)
      [] operator.kind = "Division"          -> Division(s, checked)
      [] operator.kind = "Duplicate"         -> Duplicate(s)
      [] operator.kind = "Pop"               -> Pop(s)
      [] operator.kind = "PopMoveHorizontal" -> PopMoveHorizontal(s)
      [] operator.kind = "PopMoveVertical"   -> PopMoveVertical(s)
      [] operator.kind = "Get"               -> Get(s)
      [] operator.kind = "ToggleStringMode"  -> ToggleStringMode(s)
      [] operator.kind = "SetDirection"      -> SetDirection(s, operator.dir)
      [] operator.kind = "Bridge"            -> Bridge(s)
      [] operator.kind = "NoOp"              -> NoOp(s)
      [] operator.kind = "End"               -> End(s)
      [] operator.kind = "Unknown"           -> Unknown(s, operator.n)

\* The end of interpret: one move in the direction of the partial update,
\* whatever the operator was.
advance(s) ==
    LET mv == get_move(s.direction)
    IN  [s EXCEPT !.row = s.row + mv.row, !.col = s.col + mv.col]

\* Interpreter::interpret: r is the value of the match, evaluated once.
interpret(s, operator, checked) ==
    CHOOSE result \in
        {IF r.ok THEN Ok(advance(r.val)) ELSE r :
            r \in {partial_update(s, operator, checked)}} : TRUE

\* ---------------------------------------------------------------- programs
\* The characters programs are written in: every instruction, and four
\* characters that are no instruction.
Alphabet ==
    (ChZero..ChNine) \cup
    {ChSpace, ChPlus, ChMinus, ChStar, ChSlash, ChQuote, ChColon, ChComma,
     ChUnderscore, ChPipe, ChLowerG, ChGt, ChLt, ChCaret, ChLowerV, ChHash,
     ChAt, ChQuestion, ChLowerA, ChLowerB, ChWide, ChLast}

\* Every program of one row of 1..MaxLen characters, the program of no row and
\* the program of one empty row.
ExhaustivePrograms ==
    {<<>>, << <<>> >>} \cup
    UNION {{<<r>> : r \in [1..n -> Alphabet]} : n \in 1..MaxLen}

\* Instructions that leave the value v on the stack: a digit, or 0 d - for -d.
Lit(v) == IF v >= 0 THEN <<ChZero + v>> ELSE <<ChZero, ChZero - v, ChMinus>>

Operands == (-MaxOperand)..MaxOperand

\* Instructions that leave no, one or two operands on the stack.
Prefixes ==
    {<<>>} \cup {Lit(a) : a \in Operands}
           \cup {Lit(a) \o Lit(b) : a \in Operands, b \in Operands}

\* What follows the operands: one character and End, or a few instructions.
Bodies ==
    {<<c, ChAt>> : c \in Alphabet} \cup
    {<<ChMinus, ChComma, ChAt>>,
     <<ChLowerG, ChColon, ChStar, ChAt>>,
     <<ChLowerG, ChComma, ChAt>>,
     <<ChColon, ChComma, ChComma, ChAt>>,
     <<ChHash, ChQuestion, ChAt>>}

\* A second, shorter row of characters outside Latin-1, for Get to read.
DataRow == <<ChLast, ChWide>>

OperandPrograms == {<<p \o b, DataRow>> : p \in Prefixes, b \in Bodies}

Spaces(n) == [i \in 1..n |-> ChSpace]

\* Three rows: down, right, the operand (if any), then | with an End above
\* and an End below it.
VerticalPrograms ==
    {<< <<ChLowerV>> \o Spaces(Len(p)) \o <<ChAt>>,
        <<ChGt>> \o p \o <<ChPipe>>,
        Spaces(Len(p) + 1) \o <<ChAt>> >> :
        p \in {<<>>} \cup {Lit(a) : a \in Operands}}

\* Bridges met moving Down, Up and Left, each before a ? it must skip.
BridgePrograms ==
    {<< <<ChLowerV>>, <<ChHash>>, <<ChQuestion>>, <<ChAt>> >>,
     << <<ChLowerV, ChAt>>, <<ChSpace, ChQuestion>>, <<ChSpace, ChHash>>,
        <<ChGt, ChCaret>> >>,
     << <<ChSpace, ChSpace, ChSpace, ChLowerV>>,
        <<ChAt, ChQuestion, ChHash, ChLt>> >>}

\* A string of two characters, then two Pops and End.
StringPrograms ==
    {<< <<ChQuote, c1, c2, ChQuote, ChComma, ChComma, ChAt>> >> :
        c1 \in Alphabet, c2 \in Alphabet}

\* Programs of one row: > @, 1 2 - , @, "ab" and a > < loop.
ExamplePrograms ==
    {<< <<ChGt, ChAt>> >>,
     << <<ChZero + 1, ChZero + 2, ChMinus, ChComma, ChAt>> >>,
     << <<ChQuote, ChLowerA, ChLowerB, ChQuote>> >>,
     << <<ChGt, ChLt>> >>}

\* A string of one character, an operand, then an arithmetic operator: the
\* operator's b was pushed in String mode, its a in Normal mode.
MixedPrograms ==
    {<< <<ChQuote, c, ChQuote>> \o Lit(a) \o <<o>> >> :
        c \in Alphabet \ {ChQuote}, a \in Operands,
        o \in {ChPlus, ChMinus, ChStar, ChSlash}}

Programs ==
    ExhaustivePrograms \cup OperandPrograms \cup VerticalPrograms
                       \cup BridgePrograms \cup StringPrograms
                       \cup ExamplePrograms \cup MixedPrograms

\* ------------------------------------------------------------- the machine
\* The operator recorded before any call of next().
NoOperator == Op("None")

\* main: the interpreter is built on the program read; nothing is emitted yet.
Init ==
    \E program \in Programs :
        /\ state = new(program)
        /\ prev = new(program)
        /\ lastOp = NoOperator
        /\ ret = "Start"
        /\ panic = NoPanic
        /\ emitted = 0

\* The consumer calls next() again: the last call returned a state (or no
\* call was made), and the process has not panicked.
Calling == ret \in {"Start", "Some"}

\* next() on a terminated state: next_operation is None, so is the result,
\* and self.state is not assigned.
NextNone ==
    /\ Calling
    /\ ~next_operation(state).some
    /\ ret' = "None"
    /\ prev' = state
    /\ lastOp' = NoOperator
    /\ UNCHANGED <<state, panic, emitted>>

\* next() panics: in get_operator (no operator is decoded) or in interpret.
\* self.state is not assigned and nothing is emitted.
NextPanic ==
    /\ Calling
    /\ next_operation(state).some
    /\ \E checked \in BOOLEAN :
         LET got == next_operation(state).got
             r == IF got.ok THEN interpret(state, got.val, checked) ELSE got
         IN  /\ ~r.ok
             /\ panic' = r.panic
             /\ lastOp' = IF got.ok THEN got.val ELSE NoOperator
    /\ ret' = "Panic"
    /\ prev' = state
    /\ UNCHANGED <<state, emitted>>

\* next() returns Some: the operator is decoded and interpreted, self.state
\* is assigned the result and a copy of it is emitted.
NextSome ==
    /\ Calling
    /\ emitted < MaxSteps
    /\ next_operation(state).some
    /\ next_operation(state).got.ok
    /\ \E checked \in BOOLEAN :
         LET operator == next_operation(state).got.val
             r == interpret(state, operator, checked)
         IN  /\ r.ok
             /\ state' = r.val
             /\ lastOp' = operator
    /\ ret' = "Some"
    /\ prev' = state
    /\ emitted' = emitted + 1
    /\ UNCHANGED panic

Next == NextNone \/ NextPanic \/ NextSome

Spec == Init /\ [][Next]_vars

\* ------------------------------------------------------------------ claims
\* The last call of next() emitted a state: `state` is that state, `prev` the
\* state the call started from and `lastOp` the operator it decoded.
Emitted == ret = "Some"

\* C1: Terminated is absorbing.  From a state with terminated = true the only
\* step is the call of next() that yields nothing: the state is unchanged
\* (so terminated never reverts) and no further state is emitted.
C1_TerminatedAbsorbing ==
    [][state.terminated =>
         /\ ret' = "None"
         /\ state' = state
         /\ emitted' = emitted]_vars

\* C1 witness: a terminated state from which next() has yielded nothing.
C1_Witness == state.terminated /\ ret = "None" /\ emitted > 0

\* The two values an arithmetic operator, or Get, pops, and what lies below.
TopA == Last(prev.stack)
TopB == Last(Front(prev.stack))
Below2 == Front(Front(prev.stack))

ArithmeticKinds == {"Addition", "Subtraction", "Multiplication", "Division"}

\* The last call decoded an arithmetic operator on at least two values, the
\* divisor of a Division not 0.
ArithmeticCase ==
    /\ lastOp.kind \in ArithmeticKinds
    /\ Len(prev.stack) >= 2
    /\ (lastOp.kind = "Division" => TopA # 0)

\* Whether the exact result of the operator on a (popped first) and b leaves
\* the 32 bits of a stack value.
ExactOverflows(kind, a, b) ==
    CASE kind = "Addition"       -> add_overflows(a, b)
      [] kind = "Subtraction"    -> sub_overflows(b, a)
      [] kind = "Multiplication" -> mul_overflows(a, b)
      [] kind = "Division"       -> a = -1 /\ b = MinI32

\* The exact result, when it does not overflow: a + b, b - a, a * b, and b / a
\* truncated toward zero (the sign of the quotient, the floor of the
\* magnitudes).
Magnitude(v) == IF v < 0 THEN -v ELSE v
Exact(kind, a, b) ==
    CASE kind = "Addition"       -> a + b
      [] kind = "Subtraction"    -> b - a
      [] kind = "Multiplication" -> a * b
      [] kind = "Division"       ->
           IF (a < 0) = (b < 0) THEN Magnitude(b) \div Magnitude(a)
           ELSE -(Magnitude(b) \div Magnitude(a))

\* C2: on a stack of at least two values, a popped first and b second, Add
\* leaves a + b, Sub b - a, Mul a * b and Div (a # 0) b / a truncated toward
\* zero in their place, the stack below unchanged.  A stack value holding the
\* exact result implies that the result is an i32.
C2_ArithmeticExact ==
    ArithmeticCase =>
        /\ Emitted
        /\ ~ExactOverflows(lastOp.kind, TopA, TopB)
        /\ state.stack = Append(Below2, Exact(lastOp.kind, TopA, TopB))

\* C2, where it holds: whenever the exact result is an i32, it is what the
\* operator leaves, in the order of operands the claim states.
C2_ArithmeticInRange ==
    (ArithmeticCase /\ ~ExactOverflows(lastOp.kind, TopA, TopB)) =>
        /\ Emitted
        /\ state.stack = Append(Below2, Exact(lastOp.kind, TopA, TopB))

\* C3: Duplicate on an empty stack panics with StackUnderflow and emits no
\* state; on a non-empty stack it pushes a copy of the top value.
C3_DuplicateUnderflow ==
    lastOp.kind = "Duplicate" =>
        IF prev.stack = <<>>
        THEN ret = "Panic" /\ panic.kind = "StackUnderflow" /\ state = prev
        ELSE Emitted /\ state.stack = Append(prev.stack, Last(prev.stack))

\* C4: _ and | never fail: each removes the top value v if there is one and
\* else takes v = 0 and leaves the stack empty; _ sets Right for v = 0 and
\* Left for every other v, | sets Down for v = 0 and Up for every other v.
C4_PopMoveDefault ==
    lastOp.kind \in {"PopMoveHorizontal", "PopMoveVertical"} =>
        LET empty == prev.stack = <<>>
            v == IF empty THEN 0 ELSE Last(prev.stack)
        IN  /\ Emitted
            /\ state.stack = (IF empty THEN <<>> ELSE Front(prev.stack))
            /\ lastOp.kind = "PopMoveHorizontal" =>
                 state.direction = (IF v = 0 THEN "Right" ELSE "Left")
            /\ lastOp.kind = "PopMoveVertical" =>
                 state.direction = (IF v = 0 THEN "Down" ELSE "Up")

\* C4 witness: _ executed on an empty stack.
C4_Witness ==
    /\ Emitted
    /\ lastOp.kind = "PopMoveHorizontal"
    /\ prev.stack = <<>>
    /\ state.direction = "Right"

\* C5: the step that executes End does not move: the emitted state is the
\* previous one with terminated set, at the position of the @ decoded.
C5_EndKeepsPosition ==
    (Emitted /\ lastOp.kind = "End") => state = [prev EXCEPT !.terminated = TRUE]

\* The position p + n * unit(d).
Moved(s, d, n) ==
    CASE d = "Up"    -> <<s.row - n, s.col>>
      [] d = "Down"  -> <<s.row + n, s.col>>
      [] d = "Left"  -> <<s.row, s.col - n>>
      [] d = "Right" -> <<s.row, s.col + n>>

\* C6: a Bridge step at p with direction d never fails and leaves the
\* position, where the next instruction is decoded, at p + 2 * unit(d);
\* nothing else of the state changes.
C6_BridgeSkipsOne ==
    lastOp.kind = "Bridge" =>
        /\ Emitted
        /\ <<state.row, state.col>> = Moved(prev, prev.direction, 2)
        /\ state = [prev EXCEPT !.row = state.row, !.col = state.col]

\* C6 witness: a Bridge executed moving Up.
C6_Witness == Emitted /\ lastOp.kind = "Bridge" /\ prev.direction = "Up"

\* The code point Get is to push for row x and column y of the program: that
\* of the character there, 0 for coordinates that index no character.
GridCodePoint(program, x, y) ==
    IF x \in 0..(Len(program) - 1)
    THEN (IF y \in 0..(Len(program[x + 1]) - 1) THEN program[x + 1][y + 1] ELSE 0)
    ELSE 0

\* A state of the program of the one row @, at its @, with stack [0, 0].
OneByOneAt == [new(<< <<ChAt>> >>) EXCEPT !.stack = <<0, 0>>]

\* C7: Get on at least two values pops y (top) then x and pushes the code
\* point of the character at row x, column y, and 0 (without failing) for
\* every pair of coordinates out of range; on the 1x1 grid of @ with stack
\* [0, 0] it pushes 64.
C7_GetPushesCodePoint ==
    /\ (lastOp.kind = "Get" /\ Len(prev.stack) >= 2) =>
         /\ Emitted
         /\ state.stack = Append(Below2, GridCodePoint(prev.program, TopB, TopA))
    /\ interpret(OneByOneAt, parse_operator("Normal", ChLowerG), TRUE).val.stack
         = <<64>>

\* C7 witness: Get executed with a negative row, pushing 0.
C7_Witness ==
    /\ Emitted
    /\ lastOp.kind = "Get"
    /\ Len(prev.stack) >= 2
    /\ TopB < 0
    /\ Last(state.stack) = 0

\* The character the last call decoded, when its position was valid.
Decoded == char_at(prev.program, prev.row, prev.col)
DecodedSome == valid_position(prev.program, prev.row, prev.col)

\* The last call was made in String mode on a character other than ".
StringCase ==
    /\ ret \in {"Some", "Panic"}
    /\ ~prev.terminated
    /\ prev.mode = "String"
    /\ DecodedSome
    /\ Decoded # ChQuote

\* C8: in String mode every character other than " is pushed as its code
\* point and is not executed: the step only pushes and moves one cell on in
\* the unchanged direction.
C8_StringPushesCodePoint ==
    StringCase =>
        /\ Emitted
        /\ state.stack = Append(prev.stack, Decoded)
        /\ state = [advance(prev) EXCEPT !.stack = state.stack]

\* C8, where it holds: the value pushed is the low 8 bits of the code point,
\* which is the code point for every character up to U+00FF.
C8_StringPushesLowByte ==
    StringCase =>
        /\ Emitted
        /\ state.stack = Append(prev.stack, Decoded % U8Range)
        /\ state = [advance(prev) EXCEPT !.stack = state.stack]

\* The characters of the Normal-mode instruction table.
InstructionTable ==
    (ChZero..ChNine) \cup
    {ChSpace, ChPlus, ChMinus, ChStar, ChSlash, ChQuote, ChColon, ChComma,
     ChUnderscore, ChPipe, ChLowerG, ChHash, ChGt, ChLt, ChCaret, ChLowerV,
     ChAt}

\* C9: decoding in Normal mode a character outside the instruction table
\* panics with UnknownInstruction carrying that character, emits no state and
\* no call follows; in String mode that panic is never raised.
C9_UnknownInstruction ==
    [][/\ (/\ ~state.terminated
           /\ state.mode = "Normal"
           /\ valid_position(state.program, state.row, state.col)
           /\ char_at(state.program, state.row, state.col) \notin InstructionTable)
          => /\ ret' = "Panic"
             /\ panic' = PanicChar("UnknownInstruction",
                                   char_at(state.program, state.row, state.col))
             /\ state' = state
             /\ emitted' = emitted
       /\ state.mode = "String" => panic'.kind # "UnknownInstruction"
       /\ ret # "Panic"]_vars

\* C9 witness: the panic of a ? decoded in Normal mode.
C9_Witness ==
    /\ ret = "Panic"
    /\ panic = PanicChar("UnknownInstruction", ChQuestion)
    /\ prev.mode = "Normal"

\* The low 8 bits of an integer, as a number 0..255.
LowByte(v) == v - U8Range * (v \div U8Range)

\* C10: Pop on a non-empty stack removes the top value and appends the
\* character of its low 8 bits, and nothing else, to the output; the program
\* 1 2 - , @ ends with the one output character 255.
C10_PopTruncatesToByte ==
    /\ (lastOp.kind = "Pop" /\ prev.stack # <<>>) =>
         /\ Emitted
         /\ state.stack = Front(prev.stack)
         /\ state.output = Append(prev.output, LowByte(Last(prev.stack)))
    /\ (/\ state.program =
             << <<ChZero + 1, ChZero + 2, ChMinus, ChComma, ChAt>> >>
        /\ state.terminated) => state.output = <<255>>

\* C10 witness: the program 1 2 - , @ terminated, -1 popped as character 255.
C10_Witness ==
    /\ state.program = << <<ChZero + 1, ChZero + 2, ChMinus, ChComma, ChAt>> >>
    /\ state.terminated
    /\ state.output = <<255>>

ProgramGtAt == << <<ChGt, ChAt>> >>
ProgramLoop == << <<ChGt, ChLt>> >>

\* C12: next() yields nothing only from a terminated state, after which the
\* emitted sequence has ended with a terminated state; the program > @ ends
\* so after exactly 2 states with empty output; and the > < loop is never
\* terminated, never panics and can always emit one more state (up to the
\* MaxSteps states the consumer takes).
C12_FiniteIffEnd ==
    /\ ret = "None" => (prev.terminated /\ state.terminated /\ emitted > 0)
    /\ state.program = ProgramGtAt =>
         /\ emitted <= 2
         /\ state.output = <<>>
         /\ ret # "Panic"
         /\ (state.terminated <=> emitted = 2)
         /\ (ret # "None" => ENABLED Next)
    /\ state.program = ProgramLoop =>
         /\ ~state.terminated
         /\ ret # "Panic"
         /\ (emitted < MaxSteps => ENABLED NextSome)

\* C12 witness: > @ has ended: 2 states emitted, the last terminated, then
\* nothing.
C12_Witness ==
    /\ state.program = ProgramGtAt
    /\ ret = "None"
    /\ emitted = 2
    /\ state.terminated
    /\ state.output = <<>>

\* The last call decoded the closing operator of a program of MixedPrograms:
\* the stack holds a Character below a NumericDigit.
MixedCase ==
    /\ state.program \in MixedPrograms
    /\ lastOp.kind \in ArithmeticKinds
    /\ prev.col = Len(prev.program[1]) - 1

\* C13: binary arithmetic on a value pushed in String mode panics with
\* TypeMismatch and pushes nothing.
C13_TypeMismatch ==
    MixedCase => (ret = "Panic" /\ panic.kind = "TypeMismatch" /\ state = prev)

\* The last call decoded Pop, Get or an arithmetic operator on a stack too
\* short for it.
UnderflowCase ==
    \/ lastOp.kind = "Pop" /\ Len(prev.stack) = 0
    \/ lastOp.kind \in ArithmeticKinds \cup {"Get"} /\ Len(prev.stack) < 2

\* C14: Pop with no value, and Get or arithmetic with fewer than two, panic
\* with StackUnderflow: no state is emitted (the state, its stack included,
\* is the one the call started from) and no call follows.
C14_UnderflowFatal ==
    UnderflowCase =>
        /\ ret = "Panic"
        /\ panic.kind = "StackUnderflow"
        /\ state = prev
        /\ ~ENABLED Next

\* C14 witness: an arithmetic operator met with one value on the stack.
C14_Witness ==
    /\ ret = "Panic"
    /\ lastOp.kind \in ArithmeticKinds
    /\ Len(prev.stack) = 1
    /\ state.stack = prev.stack

\* C15: Div with a = 0 popped first panics with DivisionByZero for every b:
\* nothing is pushed, no state is emitted and no call follows.
C15_DivisionByZero ==
    (lastOp.kind = "Division" /\ Len(prev.stack) >= 2 /\ TopA = 0) =>
        /\ ret = "Panic"
        /\ panic.kind = "DivisionByZero"
        /\ state = prev
        /\ ~ENABLED Next

\* C15 witness: a negative b divided by 0.
C15_Witness ==
    /\ ret = "Panic"
    /\ lastOp.kind = "Division"
    /\ Len(prev.stack) >= 2
    /\ TopA = 0
    /\ TopB < 0

\* The position of the state the last call started from indexes no
\* character: no such row, or no such column in that (possibly shorter) row.
OutsideGrid ==
    \/ prev.row + 1 \notin DOMAIN prev.program
    \/ /\ prev.row + 1 \in DOMAIN prev.program
       /\ prev.col + 1 \notin DOMAIN prev.program[prev.row + 1]

\* C16: a call of next() on a state that is not terminated and whose position
\* indexes no character panics with OutOfBounds: the position is not wrapped,
\* clamped or read as a space, no state is emitted and no call follows.
C16_OutOfBoundsFatal ==
    (ret # "Start" /\ ~prev.terminated /\ OutsideGrid) =>
        /\ ret = "Panic"
        /\ panic.kind = "OutOfBounds"
        /\ state = prev
        /\ ~ENABLED Next

\* C16 witness: a column that row 0 has and the shorter row 1 has not.
C16_Witness ==
    /\ ret = "Panic"
    /\ panic.kind = "OutOfBounds"
    /\ Len(prev.program) >= 2
    /\ prev.row = 1
    /\ prev.col >= Len(prev.program[2])
    /\ prev.col < Len(prev.program[1])

DirectionKinds == {"SetDirection", "PopMoveHorizontal", "PopMoveVertical"}

\* C17: every emitted step other than End and Bridge moves exactly one cell
\* in the direction of the emitted state: the one just set by SetDirection,
\* _ or |, the unchanged one for every other operator.
C17_AdvanceByDirection ==
    (Emitted /\ lastOp.kind \notin {"End", "Bridge"}) =>
        /\ <<state.row, state.col>> = Moved(prev, state.direction, 1)
        /\ lastOp.kind = "SetDirection" => state.direction = lastOp.dir
        /\ lastOp.kind \notin DirectionKinds => state.direction = prev.direction

\* C17 witness: v met moving Right: the step moves one row down, not one
\* column right.
C17_Witness ==
    /\ Emitted
    /\ lastOp.kind = "SetDirection"
    /\ prev.direction = "Right"
    /\ state.direction = "Down"
    /\ <<state.row, state.col>> = <<prev.row + 1, prev.col>>

\* C18: a call that decodes " flips the mode, in either mode; a call that
\* decodes any other character, or that panics, leaves it unchanged.
C18_ModeOnlyOnQuote ==
    (ret \in {"Some", "Panic"} /\ DecodedSome) =>
        IF Decoded = ChQuote
        THEN /\ Emitted
             /\ state.mode # prev.mode
             /\ state.mode \in ReaderMode
        ELSE state.mode = prev.mode

\* C18 witness: the " that ends a string.
C18_Witness ==
    /\ Emitted
    /\ lastOp.kind = "ToggleStringMode"
    /\ prev.mode = "String"
    /\ state.mode = "Normal"

\* C19: in consecutive emitted states the earlier output is a prefix of the
\* later: a Pop step adds exactly one character at its end, every other step
\* leaves it as it is; the program is the same in both.
C19_OutputAppendOnly ==
    Emitted =>
        /\ state.program = prev.program
        /\ Len(state.output) >= Len(prev.output)
        /\ SubSeq(state.output, 1, Len(prev.output)) = prev.output
        /\ Len(state.output) =
             Len(prev.output) + (IF lastOp.kind = "Pop" THEN 1 ELSE 0)

\* C19 witness: a second character appended to the output.
C19_Witness ==
    /\ Emitted
    /\ lastOp.kind = "Pop"
    /\ Len(prev.output) = 1
    /\ Len(state.output) = 2

\* C20: every emitted step of an operator other than SetDirection, _ and |
\* leaves the direction unchanged.
C20_DirectionFrame ==
    (Emitted /\ lastOp.kind \notin DirectionKinds) =>
        state.direction = prev.direction

\* C20 witness: a digit pushed while moving Left.
C20_Witness ==
    /\ Emitted
    /\ lastOp.kind = "PushDigit"
    /\ prev.direction = "Left"
    /\ state.direction = "Left"
====
